---------------------------- MODULE Spec2Model ----------------------------
(***************************************************************************)
(* Model of the attendance aggregation of vrcx_query.py: the queries of    *)
(* class VRCXQuery over the table gamelog_join_leave, the emitters (charts *)
(* and exports), and main() from its arguments to the close.               *)
(*                                                                         *)
(* Time is counted in whole hours since 2024-12-29 00:00 (a Sunday), so a  *)
(* timestamp t has date t \div 24 and hour t % 24, and a date d falls on   *)
(* weekday d % 7 with 0 = Sunday, as SQLite's strftime('%w') numbers it.   *)
(* Identifiers (world ids, locations) are sequences of characters.         *)
(***************************************************************************)
EXTENDS Integers, Sequences, FiniteSets, Bags, TLC

VARIABLES store, clock, pc, call, result, connection, readable, again, charts,
          outcome

vars == <<store, clock, pc, call, result, connection, readable, again, charts,
         outcome>>

---------------------------------------------------------------------------
(* Bounds of the model *)

\* most rows the table gamelog_join_leave holds
MaxRows == 2
\* most hours the system clock advances past ClockStart
MaxTicks == 1

---------------------------------------------------------------------------
(* Values *)

NULL == "NULL"
NoDate == 0 - 1
NoId == << >>
\* a date string that is no date, such as 'yesterday'
BadDate == 0 - 2

At(day, hour) == day * 24 + hour

\* Monday 2025-01-06, 08:00: the time at which the first request is issued
ClockStart == At(8, 8)
MaxClock == ClockStart + MaxTicks

WorldA == <<"A">>
WorldAB == <<"A", "B">>
Worlds == {WorldA, WorldAB}
Fragments == {<<"1">>, <<"2">>}
Loc(world, fragment) == world \o <<":">> \o fragment
Locations == {Loc(WorldA, <<"1">>), Loc(WorldA, <<"2">>), Loc(WorldAB, <<"1">>)}

Names == {"Ann", "Bob"}
\* Monday 2024-12-30, Sunday 2025-01-05 (the same week, across the year's
\* end), and today, Monday 2025-01-06, at the hour of the request and after it
RowTimes == {At(1, 8), At(7, 8), At(8, 8), At(8, 9)}
\* A row of gamelog_join_leave, join or leave alike: no aggregation reads the
\* column type, so the table is the multiset of (created_at, display_name,
\* location), and a person's join and leave in one hour are two copies.
Rows == [created_at : RowTimes, display_name : Names \cup {NULL},
         location : Locations]

QueryDates == {1, 8}

---------------------------------------------------------------------------
(* SQLite and Python primitives *)

\* DATE(created_at), and datetime.strftime('%Y-%m-%d')
DATE(t) == t \div 24
\* CAST(strftime('%H', created_at) AS INTEGER), and datetime.hour
HOUR(t) == t % 24
\* CAST(strftime('%w', date) AS INTEGER): 0 = Sunday
WEEKDAY(d) == d % 7
\* x BETWEEN lo AND hi
BETWEEN(x, lo, hi) == lo <= x /\ x <= hi
\* SUBSTR(s, 1, n)
SUBSTR1(s, n) == SubSeq(s, 1, IF n < Len(s) THEN n ELSE Len(s))
\* ':' in s
HasColon(s) == \E i \in 1..Len(s) : s[i] = ":"

RECURSIVE SumCopies(_, _)
SumCopies(B, S) ==
    IF S = {} THEN 0
    ELSE LET r == CHOOSE x \in S : TRUE
         IN  CopiesIn(r, B) + SumCopies(B, S \ {r})

\* COUNT(*) over the rows S of table B
CountStar(B, S) == SumCopies(B, S)
\* COUNT(display_name): rows whose display_name is NULL are not counted
CountCol(B, S) == SumCopies(B, {r \in S : r.display_name # NULL})
\* faulty variant of CountDistinct: COUNT(DISTINCT display_name || location),
\* a person seen at two locations in one bucket is counted twice
CountDistinct_per_location(S) ==
    Cardinality({<<r.display_name, r.location>> : r \in S} \ ({NULL} \X Locations))
\* faulty variant of CountDistinct: COUNT(DISTINCT COALESCE(display_name, '?')),
\* the rows without a name count as one more person
CountDistinct_coalesced(S) == Cardinality({r.display_name : r \in S})
\* COUNT(DISTINCT display_name)
CountDistinct(S) == Cardinality({r.display_name : r \in S} \ {NULL})

\* CAST(ROUND(s / n) AS INTEGER) for s >= 0, n > 0: halves round away from 0
ROUND(s, n) == (2 * s + n) \div (2 * n)

RECURSIVE SumOver(_, _)
SumOver(f, S) ==
    IF S = {} THEN 0
    ELSE LET x == CHOOSE y \in S : TRUE
         IN  f[x] + SumOver(f, S \ {x})

\* ORDER BY k ASC over a set of integers
RECURSIVE OrderAsc(_)
OrderAsc(S) ==
    IF S = {} THEN << >>
    ELSE LET m == CHOOSE x \in S : \A y \in S : x <= y
         IN  <<m>> \o OrderAsc(S \ {m})

\* the CTE hours: SELECT 0 AS hour UNION ALL ... SELECT 23
Hours == 0..23

---------------------------------------------------------------------------
(* VRCXDatabase *)

\* faulty variant of execute: the call that has to open the connection
\* returns before it has run the query
execute_returns_after_connect(rows) ==
    IF connection = "none" THEN << >>
    ELSE IF readable THEN rows ELSE << >>
\* VRCXDatabase.execute: the rows the query selects, cursor.fetchall(), or []
\* when SQLite raises an error (except sqlite3.Error: ... return [])
execute(rows) == IF readable THEN rows ELSE << >>

---------------------------------------------------------------------------
(* Hour-of-day queries of one date *)

\* date_str defaults to today's date (first clock reading)
DefaultDate(date_str, now) == IF date_str = NoDate THEN DATE(now[1]) ELSE date_str

\* faulty variant of CurrentHour: the cutoff at the current hour is applied to
\* every date
CurrentHour_every_date(date_str, now) == HOUR(now[3])
\* is_today (second clock reading) and current_hour (third clock reading)
CurrentHour(date_str, now) ==
    LET is_today == date_str = DATE(now[2])
    IN  IF is_today THEN HOUR(now[3]) ELSE 23

\* faulty variant of HourGroups: without WHERE h.hour <= ?, the hours to come
\* are zero-filled
HourGroups_no_cutoff(current_hour) == Hours
\* FROM hours h LEFT JOIN ... WHERE h.hour <= ? GROUP BY h.hour ORDER BY h.hour ASC
HourGroups(current_hour) == {h \in Hours : h <= current_hour}

\* SELECT h.hour, COUNT(...): count[h] is the aggregate over the rows joined
\* to hour h
HourlyRows(current_hour, count) ==
    LET hs == OrderAsc(HourGroups(current_hour))
    IN  [i \in 1..Len(hs) |-> [hour |-> hs[i], count |-> count[hs[i]]]]

\* ON DATE(j.created_at) = ? AND CAST(strftime('%H', j.created_at) AS INTEGER) = h.hour
JoinHour(B, d, h) ==
    {j \in BagToSet(B) : DATE(j.created_at) = d /\ HOUR(j.created_at) = h}

\* ... AND j.location = ?
JoinHourInstance(B, d, h, instance_id) ==
    {j \in JoinHour(B, d, h) : j.location = instance_id}

\* ... AND SUBSTR(j.location, 1, ?) = ?
JoinHourWorld(B, d, h, world_id) ==
    {j \in JoinHour(B, d, h) : SUBSTR1(j.location, Len(world_id)) = world_id}

get_hour_by_hour_summary(B, date_str, now) ==
    LET d == DefaultDate(date_str, now)
    IN  HourlyRows(CurrentHour(d, now), [h \in Hours |-> CountCol(B, JoinHour(B, d, h))])

get_unique_visitors_by_hour(B, date_str, now) ==
    LET d == DefaultDate(date_str, now)
    IN  HourlyRows(CurrentHour(d, now), [h \in Hours |-> CountDistinct(JoinHour(B, d, h))])

get_hour_by_hour_summary_for_instance(B, instance_id, date_str, now) ==
    LET d == DefaultDate(date_str, now)
    IN  HourlyRows(CurrentHour(d, now),
                   [h \in Hours |-> CountCol(B, JoinHourInstance(B, d, h, instance_id))])

get_unique_visitors_by_hour_for_instance(B, instance_id, date_str, now) ==
    LET d == DefaultDate(date_str, now)
    IN  HourlyRows(CurrentHour(d, now),
                   [h \in Hours |-> CountDistinct(JoinHourInstance(B, d, h, instance_id))])

get_hour_by_hour_summary_for_world(B, world_id, date_str, now) ==
    LET d == DefaultDate(date_str, now)
    IN  HourlyRows(CurrentHour(d, now),
                   [h \in Hours |-> CountCol(B, JoinHourWorld(B, d, h, world_id))])

get_unique_visitors_by_hour_for_world(B, world_id, date_str, now) ==
    LET d == DefaultDate(date_str, now)
    IN  HourlyRows(CurrentHour(d, now),
                   [h \in Hours |-> CountDistinct(JoinHourWorld(B, d, h, world_id))])

---------------------------------------------------------------------------
(* Queries over a date range *)

\* start_date_str defaults to today's date, end_date_str to the start date
DefaultStart(start_date_str, now) ==
    IF start_date_str = NoDate THEN DATE(now[1]) ELSE start_date_str
DefaultEnd(start, end_date_str) ==
    IF end_date_str = NoDate THEN start ELSE end_date_str

\* FROM gamelog_join_leave WHERE DATE(created_at) BETWEEN ? AND ?
InRange(B, start, end) ==
    {r \in BagToSet(B) : BETWEEN(DATE(r.created_at), start, end)}

\* the rows of one group of GROUP BY DATE(created_at), hour
OfDateHour(S, d, h) == {r \in S : DATE(r.created_at) = d /\ HOUR(r.created_at) = h}
\* the rows of one group of GROUP BY DATE(created_at)
OfDate(S, d) == {r \in S : DATE(r.created_at) = d}

\* the groups of GROUP BY DATE(created_at), hour
DateHours(S) == {<<DATE(r.created_at), HOUR(r.created_at)>> : r \in S}
\* the groups of GROUP BY DATE(created_at)
Dates(S) == {DATE(r.created_at) : r \in S}

\* COUNT(*) and COUNT(DISTINCT display_name) per (date, hour)
TotalPerDateHour(B, S) ==
    [g \in DateHours(S) |-> CountStar(B, OfDateHour(S, g[1], g[2]))]
UniquePerDateHour(S) ==
    [g \in DateHours(S) |-> CountDistinct(OfDateHour(S, g[1], g[2]))]
\* COUNT(*) and COUNT(DISTINCT display_name) per date
TotalPerDate(B, S) == [d \in Dates(S) |-> CountStar(B, OfDate(S, d))]
UniquePerDate(S) == [d \in Dates(S) |-> CountDistinct(OfDate(S, d))]

\* faulty variant of AverageRows: JOIN in place of LEFT JOIN, an hour without
\* rows gets no entry
AverageRows_inner_join(v) ==
    LET hs == OrderAsc({g[2] : g \in DOMAIN v})
    IN  [i \in 1..Len(hs) |->
            LET hd == {g \in DOMAIN v : g[2] = hs[i]}
            IN  [hour |-> hs[i],
                 count |-> ROUND(SumOver(v, hd), Cardinality(hd))]]

\* SELECT h.hour, CAST(ROUND(AVG(COALESCE(hd.v, 0))) AS INTEGER)
\* FROM hours h LEFT JOIN hourly_data hd ON h.hour = hd.hour
\* GROUP BY h.hour ORDER BY h.hour ASC
\* where hourly_data v has one row per (date, hour) that holds a row: an hour
\* is averaged over the rows of hourly_data it joins, and an hour that joins
\* none is the one row COALESCE turns to 0
AverageRows(v) ==
    LET hs == OrderAsc(Hours)
    IN  [i \in 1..Len(hs) |->
            LET hd == {g \in DOMAIN v : g[2] = hs[i]}
            IN  [hour |-> hs[i],
                 count |-> IF hd = {} THEN ROUND(0, 1)
                           ELSE ROUND(SumOver(v, hd), Cardinality(hd))]]

get_hour_by_hour_average(B, start_date_str, end_date_str, now) ==
    LET start == DefaultStart(start_date_str, now)
        end == DefaultEnd(start, end_date_str)
    IN  AverageRows(TotalPerDateHour(B, InRange(B, start, end)))

get_unique_visitors_average(B, start_date_str, end_date_str, now) ==
    LET start == DefaultStart(start_date_str, now)
        end == DefaultEnd(start, end_date_str)
    IN  AverageRows(UniquePerDateHour(InRange(B, start, end)))

\* faulty variant of DayOfWeekRows: every weekday gets an entry, 0 for a
\* weekday without rows
DayOfWeekRows_zero_filled(v) ==
    [i \in 1..7 |->
        LET ds == {d \in DOMAIN v : WEEKDAY(d) = i - 1}
        IN  [day_of_week |-> i - 1,
             count |-> IF ds = {} THEN 0
                       ELSE ROUND(SumOver(v, ds), Cardinality(ds))]]

\* SELECT CAST(strftime('%w', date) AS INTEGER) as day_of_week, ROUND(AVG(v))
\* FROM (SELECT DATE(created_at) as date, v ... GROUP BY DATE(created_at))
\* GROUP BY day_of_week ORDER BY day_of_week
\* where v has one row per date that holds a row
DayOfWeekRows(v) ==
    LET days == OrderAsc({WEEKDAY(d) : d \in DOMAIN v})
    IN  [i \in 1..Len(days) |->
            LET ds == {d \in DOMAIN v : WEEKDAY(d) = days[i]}
            IN  [day_of_week |-> days[i],
                 count |-> ROUND(SumOver(v, ds), Cardinality(ds))]]

get_day_of_week_average(B, start_date_str, end_date_str, now) ==
    LET start == DefaultStart(start_date_str, now)
        end == DefaultEnd(start, end_date_str)
    IN  DayOfWeekRows(TotalPerDate(B, InRange(B, start, end)))

get_unique_visitors_day_of_week(B, start_date_str, end_date_str, now) ==
    LET start == DefaultStart(start_date_str, now)
        end == DefaultEnd(start, end_date_str)
    IN  DayOfWeekRows(UniquePerDate(InRange(B, start, end)))

\* CASE CAST(strftime('%w', created_at) AS INTEGER) WHEN 0 THEN 'Sunday' ...
DayName(w) ==
    <<"Sunday", "Monday", "Tuesday", "Wednesday", "Thursday", "Friday",
      "Saturday">>[w + 1]
\* faulty variant of WeekEnd: the Sunday strictly after the date, so a Sunday
\* falls into the week that follows it
WeekEnd_after(d) == d + 7 - WEEKDAY(d)
\* DATE(created_at, 'weekday 0'): the first Sunday on or after the date
WeekEnd(d) == d + ((7 - WEEKDAY(d)) % 7)
\* DATE(created_at, 'weekday 0', '-6 days')
WeekStart(d) == WeekEnd(d) - 6

\* faulty variant of WeeklyRows: ORDER BY date, the days of a week in the
\* order of the calendar, Monday first and Sunday last
WeeklyRows_by_date(v) ==
    LET dates == OrderAsc(DOMAIN v)
    IN  [i \in 1..Len(dates) |->
            [week_start |-> WeekStart(dates[i]), week_end |-> WeekEnd(dates[i]),
             day_of_week |-> WEEKDAY(dates[i]),
             day_name |-> DayName(WEEKDAY(dates[i])),
             count |-> v[dates[i]]]]

\* one row per date (GROUP BY DATE(created_at), then GROUP BY week_start,
\* week_end, day_of_week, day_name, date), ORDER BY week_start, day_of_week;
\* v has one row per date that holds a row
WeeklyRows(v) ==
    LET keys == OrderAsc({WeekStart(d) * 7 + WEEKDAY(d) : d \in DOMAIN v})
    IN  [i \in 1..Len(keys) |->
            LET d == CHOOSE x \in DOMAIN v : WeekStart(x) * 7 + WEEKDAY(x) = keys[i]
            IN  [week_start |-> WeekStart(d), week_end |-> WeekEnd(d),
                 day_of_week |-> WEEKDAY(d), day_name |-> DayName(WEEKDAY(d)),
                 count |-> v[d]]]

get_weekly_day_of_week_breakdown(B, start_date_str, end_date_str, now) ==
    LET start == DefaultStart(start_date_str, now)
        end == DefaultEnd(start, end_date_str)
    IN  WeeklyRows(TotalPerDate(B, InRange(B, start, end)))

get_unique_visitors_weekly(B, start_date_str, end_date_str, now) ==
    LET start == DefaultStart(start_date_str, now)
        end == DefaultEnd(start, end_date_str)
    IN  WeeklyRows(UniquePerDate(InRange(B, start, end)))

\* SELECT DATE(created_at) as date, COUNT(DISTINCT display_name)
\* ... GROUP BY DATE(created_at) ORDER BY DATE(created_at) ASC
get_unique_visitors_daily(B, start_date_str, end_date_str, now) ==
    LET start == DefaultStart(start_date_str, now)
        end == DefaultEnd(start, end_date_str)
        v == UniquePerDate(InRange(B, start, end))
        dates == OrderAsc(DOMAIN v)
    IN  [i \in 1..Len(dates) |-> [date |-> dates[i], count |-> v[dates[i]]]]

\* SELECT DATE(created_at) as date, hour, COUNT(*)
\* ... GROUP BY DATE(created_at), hour ORDER BY DATE(created_at) ASC, hour ASC
get_daily_hourly_summary(B, start_date_str, end_date_str, now) ==
    LET start == DefaultStart(start_date_str, now)
        end == DefaultEnd(start, end_date_str)
        v == TotalPerDateHour(B, InRange(B, start, end))
        keys == OrderAsc({g[1] * 24 + g[2] : g \in DOMAIN v})
    IN  [i \in 1..Len(keys) |->
            [date |-> keys[i] \div 24, hour |-> keys[i] % 24,
             count |-> v[<<keys[i] \div 24, keys[i] % 24>>]]]

---------------------------------------------------------------------------
(* Instances of a world *)

\* INSTR(s, ':'): the first position of ':' in s, 0 when there is none
INSTR(s) ==
    IF HasColon(s) THEN CHOOSE i \in 1..Len(s) :
                            s[i] = ":" /\ \A k \in 1..(i - 1) : s[k] # ":"
    ELSE 0
\* SUBSTR(s, k)
SUBSTRFROM(s, k) == SubSeq(s, k, Len(s))

\* WHERE DATE(created_at) BETWEEN ? AND ? AND SUBSTR(location, 1, ?) = ?
InRangeWorld(B, start, end, world_id) ==
    {r \in InRange(B, start, end) : SUBSTR1(r.location, Len(world_id)) = world_id}

\* one row per location (GROUP BY location)
InstanceRows(S) ==
    {[instance_id |-> l,
      instance_number |-> SUBSTRFROM(l, INSTR(l) + 1),
      visit_count |-> Cardinality({DATE(r.created_at) : r \in {x \in S : x.location = l}}),
      last_visited |-> CHOOSE t \in {r.created_at : r \in {x \in S : x.location = l}} :
                           \A r \in {x \in S : x.location = l} : r.created_at <= t]
       : l \in {r.location : r \in S}}

\* ORDER BY visit_count DESC, last_visited DESC
OrderedInstances(a, b) ==
    \/ a.visit_count > b.visit_count
    \/ a.visit_count = b.visit_count /\ a.last_visited >= b.last_visited

\* every order of the rows the ORDER BY allows: rows that tie on both keys
\* come in either order
get_unique_instances_for_world(B, world_id, start_date_str, end_date_str, now) ==
    LET start == DefaultStart(start_date_str, now)
        end == DefaultEnd(start, end_date_str)
        G == InstanceRows(InRangeWorld(B, start, end, world_id))
        n == Cardinality(G)
    IN  {f \in [1..n -> G] :
            /\ \A i, j \in 1..n : i # j => f[i] # f[j]
            /\ \A i, j \in 1..n : i < j => OrderedInstances(f[i], f[j])}

---------------------------------------------------------------------------
(* main(): the reports of a request with --instance-id or --world-id *)

\* is_date_range = args.start_date and args.end_date
is_date_range(args) == args.start_date # NoDate /\ args.end_date # NoDate

\* faulty variant of MainDates: the defaults are the day before today
MainDates_yesterday(args, now) ==
    IF args.weekly \/ args.day_of_week \/ args.average
    THEN LET start == IF args.start_date = NoDate THEN DATE(now[1]) - 1
                      ELSE args.start_date
         IN  [args EXCEPT !.start_date = start,
                          !.end_date = IF args.end_date = NoDate THEN start ELSE @]
    ELSE IF is_date_range(args) THEN args
    ELSE [args EXCEPT !.date = IF @ = NoDate THEN DATE(now[1]) - 1 ELSE @]

\* "Determine dates to query": the three mode flags default the range, a
\* request with neither flag nor range defaults --date to today
MainDates(args, now) ==
    IF args.weekly \/ args.day_of_week \/ args.average
    THEN LET start == IF args.start_date = NoDate THEN DATE(now[1]) ELSE args.start_date
         IN  [args EXCEPT !.start_date = start,
                          !.end_date = IF args.end_date = NoDate THEN start ELSE @]
    ELSE IF is_date_range(args) THEN args
    ELSE [args EXCEPT !.date = IF @ = NoDate THEN DATE(now[1]) ELSE @]

\* faulty variant of Materialize: the ids are joined without the delimiter
Materialize_no_delimiter(world_id, instance_id) ==
    IF world_id # NoId /\ ~HasColon(instance_id)
    THEN world_id \o instance_id
    ELSE instance_id
\* if args.world_id and ':' not in args.instance_id:
\*     args.instance_id = f"{args.world_id}:{args.instance_id}"
Materialize(world_id, instance_id) ==
    IF world_id # NoId /\ ~HasColon(instance_id)
    THEN world_id \o <<":">> \o instance_id
    ELSE instance_id

\* the table print_hour_by_hour_summary_for_instance prints
print_hour_by_hour_summary_for_instance(B, instance_id, date_str, is_unique, now) ==
    IF is_unique
    THEN execute(get_unique_visitors_by_hour_for_instance(B, instance_id, date_str, now))
    ELSE execute(get_hour_by_hour_summary_for_instance(B, instance_id, date_str, now))

\* the table print_hour_by_hour_summary_for_world prints
print_hour_by_hour_summary_for_world(B, world_id, date_str, is_unique, now) ==
    IF is_unique
    THEN execute(get_unique_visitors_by_hour_for_world(B, world_id, date_str, now))
    ELSE execute(get_hour_by_hour_summary_for_world(B, world_id, date_str, now))

\* current = start; while current <= end: ...; current += timedelta(days=1)
\* the dates the loop visits, in order
\* faulty variant of LoopDates: while current < end, the last date is left out
LoopDates_end_excluded(start, end) ==
    [i \in 1..(IF start < end THEN end - start ELSE 0) |-> start + i - 1]
LoopDates(start, end) ==
    [i \in 1..(IF start <= end THEN end - start + 1 ELSE 0) |-> start + i - 1]

\* if args.instance_id: the instance report.  args0 are the parsed arguments,
\* args the arguments after the defaulting of dates, nows the clock readings:
\* the i-th table is queried with nows[i].
instance_report(B, args0, args, nows) ==
    LET instance_id == Materialize(args.world_id, args.instance_id)
    IN  IF args.date # NoDate
        THEN <<[date |-> args.date,
                rows |-> print_hour_by_hour_summary_for_instance(
                             B, instance_id, args.date, args.unique, nows[1])]>>
        ELSE IF is_date_range(args0)
        THEN LET ds == LoopDates(args.start_date, args.end_date)
             IN  [i \in 1..Len(ds) |->
                     [date |-> ds[i],
                      rows |-> print_hour_by_hour_summary_for_instance(
                                   B, instance_id, ds[i], args.unique, nows[i])]]
        ELSE << >>

\* elif args.world_id: the world report
world_report(B, args0, args, nows) ==
    IF args.date # NoDate
    THEN <<[date |-> args.date,
            rows |-> print_hour_by_hour_summary_for_world(
                         B, args.world_id, args.date, args.unique, nows[1])]>>
    ELSE IF is_date_range(args0)
    THEN LET ds == LoopDates(args.start_date, args.end_date)
         IN  [i \in 1..Len(ds) |->
                 [date |-> ds[i],
                  rows |-> print_hour_by_hour_summary_for_world(
                               B, args.world_id, ds[i], args.unique, nows[i])]]
    ELSE << >>

\* the table print_hour_by_hour_summary prints
print_hour_by_hour_summary(B, date_str, is_unique, now) ==
    IF is_unique
    THEN execute(get_unique_visitors_by_hour(B, date_str, now))
    ELSE execute(get_hour_by_hour_summary(B, date_str, now))

\* the table print_hour_by_hour_average prints
print_hour_by_hour_average(B, start_date_str, end_date_str, is_unique, now) ==
    IF is_unique
    THEN execute(get_unique_visitors_average(B, start_date_str, end_date_str, now))
    ELSE execute(get_hour_by_hour_average(B, start_date_str, end_date_str, now))

\* the table print_daily_hourly_summary prints
print_daily_hourly_summary(B, start_date_str, end_date_str, now) ==
    execute(get_daily_hourly_summary(B, start_date_str, end_date_str, now))

\* the table print_day_of_week_average prints.  The module defines the
\* function twice; the second definition (line 1238) replaces the first
\* (line 1035): it prints the weekly breakdown and does not read is_unique.
print_day_of_week_average(B, start_date_str, end_date_str, is_unique, now) ==
    execute(get_weekly_day_of_week_breakdown(B, start_date_str, end_date_str, now))

\* the rows print_instances_for_world prints, as a set: their order is that
\* of get_unique_instances_for_world
print_instances_for_world(B, world_id, start_date_str, end_date_str, now) ==
    LET start == DefaultStart(start_date_str, now)
        end == DefaultEnd(start, end_date_str)
    IN  IF readable THEN InstanceRows(InRangeWorld(B, start, end, world_id))
        ELSE {}

\* elif args.list_instances: the list of the instances of a world
list_report(B, args, nows) ==
    IF args.world_id = NoId THEN << >>
    ELSE LET start == IF args.start_date # NoDate THEN args.start_date
                      ELSE IF args.date # NoDate THEN args.date
                      ELSE DATE(nows[1][1])
             end == IF args.end_date # NoDate THEN args.end_date ELSE start
         IN  <<[start_date |-> start, end_date |-> end,
                instances |-> print_instances_for_world(
                                  B, args.world_id, start, end, nows[1])]>>

\* the branches of main() for a request without a filter: --weekly,
\* --day-of-week, --average, a date range, a single date.
\* print_weekly_day_of_week_breakdown is defined nowhere: --weekly raises
\* NameError, which main's except reports, and no table is printed.
mode_report(B, args0, args, nows) ==
    IF args.weekly THEN << >>
    ELSE IF args.day_of_week
    THEN <<[start_date |-> args.start_date, end_date |-> args.end_date,
            rows |-> print_day_of_week_average(
                         B, args.start_date, args.end_date, args.unique, nows[1])]>>
    ELSE IF args.average
    THEN <<[start_date |-> args.start_date, end_date |-> args.end_date,
            rows |-> print_hour_by_hour_average(
                         B, args.start_date, args.end_date, args.unique, nows[1])]>>
    ELSE IF is_date_range(args0)
    THEN <<[start_date |-> args.start_date, end_date |-> args.end_date,
            rows |-> print_daily_hourly_summary(
                         B, args.start_date, args.end_date, nows[1])]>>
    ELSE <<[date |-> args.date,
            rows |-> print_hour_by_hour_summary(B, args.date, args.unique, nows[1])]>>

\* faulty variant of main_report: the world branch is tested first, so a
\* request with both filters gets the world report
main_report_world_first(B, args0, nows) ==
    LET args == MainDates(args0, nows[1])
    IN  IF args.list_instances THEN list_report(B, args, nows)
        ELSE IF args.world_id # NoId THEN world_report(B, args0, args, nows)
        ELSE IF args.instance_id # NoId THEN instance_report(B, args0, args, nows)
        ELSE mode_report(B, args0, args, nows)

\* the report phase of main() for a request other than --list-worlds: the
\* tables printed, in order.  nows[1] also serves the defaults of main.
main_report(B, args0, nows) ==
    LET args == MainDates(args0, nows[1])
    IN  IF args.list_instances THEN list_report(B, args, nows)
        ELSE IF args.instance_id # NoId THEN instance_report(B, args0, args, nows)
        ELSE IF args.world_id # NoId THEN world_report(B, args0, args, nows)
        ELSE mode_report(B, args0, args, nows)

---------------------------------------------------------------------------
(* Emitters: exports and charts.  An emitter gives the files it writes, in
   order; none of them raises on a summary it was given by execute. *)

\* f"{row['hour']:02d}:00"
HourLabel(hour) == <<hour \div 10, hour % 10, ":", 0, 0>>

\* days = ['Sunday', ..., 'Saturday'] and days_full
days == <<"Sunday", "Monday", "Tuesday", "Wednesday", "Thursday", "Friday",
          "Saturday">>

ExportModes == {"weekly", "day_of_week", "average", "daily", "hourly"}

\* the summary export_to_csv and export_to_excel query: is_weekly, then
\* is_day_of_week, then is_average, then is_daily, else the hours of date_str
export_summary(B, mode, is_unique, date_str, start_date_str, end_date_str, now) ==
    execute(
        IF is_unique
        THEN CASE mode = "weekly" ->
                    get_unique_visitors_weekly(B, start_date_str, end_date_str, now)
               [] mode = "day_of_week" ->
                    get_unique_visitors_day_of_week(B, start_date_str, end_date_str, now)
               [] mode = "average" ->
                    get_unique_visitors_average(B, start_date_str, end_date_str, now)
               [] mode = "daily" ->
                    get_unique_visitors_daily(B, start_date_str, end_date_str, now)
               [] OTHER -> get_unique_visitors_by_hour(B, date_str, now)
        ELSE CASE mode = "weekly" ->
                    get_weekly_day_of_week_breakdown(B, start_date_str, end_date_str, now)
               [] mode = "day_of_week" ->
                    get_day_of_week_average(B, start_date_str, end_date_str, now)
               [] mode = "average" ->
                    get_hour_by_hour_average(B, start_date_str, end_date_str, now)
               [] mode = "daily" ->
                    get_daily_hourly_summary(B, start_date_str, end_date_str, now)
               [] OTHER -> get_hour_by_hour_summary(B, date_str, now))

\* fieldnames of export_to_csv, headers of export_to_excel
fieldnames(mode, is_unique) ==
    IF is_unique
    THEN CASE mode = "weekly" ->
                <<"Week Start", "Week End", "Day of Week", "Unique Visitors">>
           [] mode = "day_of_week" -> <<"Day of Week", "Avg Unique Visitors">>
           [] mode = "average" -> <<"Hour", "Avg Unique Visitors">>
           [] mode = "daily" -> <<"Date", "Unique Visitors">>
           [] OTHER -> <<"Hour", "Unique Visitors">>
    ELSE CASE mode = "weekly" ->
                <<"Week Start", "Week End", "Day of Week", "People">>
           [] mode = "day_of_week" -> <<"Day of Week", "Avg People">>
           [] mode = "average" -> <<"Hour", "Avg People">>
           [] mode = "daily" -> <<"Date", "Hour", "People">>
           [] OTHER -> <<"Hour", "People">>

\* the row written for one row of the summary (value or 0 is the value)
written_row(row, mode, is_unique) ==
    CASE mode = "weekly" ->
            <<row.week_start, row.week_end, row.day_name, row.count>>
      [] mode = "day_of_week" -> <<days[row.day_of_week + 1], row.count>>
      [] mode = "average" -> <<HourLabel(row.hour), row.count>>
      [] mode = "daily" ->
            IF is_unique THEN <<row.date, row.count>>
            ELSE <<row.date, HourLabel(row.hour), row.count>>
      [] OTHER -> <<HourLabel(row.hour), row.count>>

\* faulty variant of export_to_csv: the file is opened and its header written
\* before the summary is looked at
export_to_csv_header_first(B, mode, is_unique, date_str, start_date_str, end_date_str, now) ==
    LET summary == export_summary(B, mode, is_unique, date_str, start_date_str,
                                  end_date_str, now)
    IN  <<[kind |-> "csv", header |-> fieldnames(mode, is_unique),
           rows |-> [i \in 1..Len(summary) |->
                        written_row(summary[i], mode, is_unique)]]>>

export_to_csv(B, mode, is_unique, date_str, start_date_str, end_date_str, now) ==
    LET summary == export_summary(B, mode, is_unique, date_str, start_date_str,
                                  end_date_str, now)
    IN  IF summary = << >> THEN << >>
        ELSE <<[kind |-> "csv", header |-> fieldnames(mode, is_unique),
                rows |-> [i \in 1..Len(summary) |->
                             written_row(summary[i], mode, is_unique)]]>>

export_to_excel(B, mode, is_unique, date_str, start_date_str, end_date_str, now) ==
    LET summary == export_summary(B, mode, is_unique, date_str, start_date_str,
                                  end_date_str, now)
    IN  IF summary = << >> THEN << >>
        ELSE <<[kind |-> "xlsx", header |-> fieldnames(mode, is_unique),
                rows |-> [i \in 1..Len(summary) |->
                             written_row(summary[i], mode, is_unique)]]>>

\* [data_dict.get(h, 0) for h in range(24)], data_dict from the summary
HourBars(summary) ==
    [h \in Hours |->
        IF \E i \in 1..Len(summary) : summary[i].hour = h
        THEN summary[CHOOSE i \in 1..Len(summary) : summary[i].hour = h].count
        ELSE 0]

create_average_chart(B, is_unique, start_date_str, end_date_str, now) ==
    LET summary == export_summary(B, "average", is_unique, NoDate,
                                  start_date_str, end_date_str, now)
    IN  IF summary = << >> THEN << >>
        ELSE <<[kind |-> "png", bars |-> HourBars(summary)]>>

create_daily_chart(B, is_unique, date_str, now) ==
    LET summary == export_summary(B, "hourly", is_unique, date_str, NoDate,
                                  NoDate, now)
    IN  IF summary = << >> THEN << >>
        ELSE <<[kind |-> "png", bars |-> HourBars(summary)]>>

create_day_of_week_chart(B, is_unique, start_date_str, end_date_str, now) ==
    LET summary == export_summary(B, "day_of_week", is_unique, NoDate,
                                  start_date_str, end_date_str, now)
    IN  IF summary = << >> THEN << >>
        ELSE <<[kind |-> "png",
                bars |-> [i \in 1..Len(summary) |->
                             <<days[summary[i].day_of_week + 1], summary[i].count>>]]>>

\* weeks[week_key][day_of_week] = people_count: the bars of one week, a later
\* row of the same day replacing an earlier one
WeekBars(summary, week_end) ==
    LET idx == {i \in 1..Len(summary) : summary[i].week_end = week_end}
        ds == OrderAsc({summary[i].day_of_week : i \in idx})
    IN  [k \in 1..Len(ds) |->
            LET last == CHOOSE i \in idx :
                            /\ summary[i].day_of_week = ds[k]
                            /\ \A j \in idx : summary[j].day_of_week = ds[k] => j <= i
            IN  <<days[ds[k] + 1], summary[last].count>>]

\* the weeks of a weekly summary, sorted(weeks.items())
WeeksOf(summary) == OrderAsc({summary[i].week_end : i \in 1..Len(summary)})

\* one chart for each week
create_weekly_charts(B, is_unique, start_date_str, end_date_str, now) ==
    LET summary == export_summary(B, "weekly", is_unique, NoDate,
                                  start_date_str, end_date_str, now)
        weeks == WeeksOf(summary)
    IN  IF summary = << >> THEN << >>
        ELSE [k \in 1..Len(weeks) |->
                 [kind |-> "png", week_start |-> weeks[k] - 6,
                  week_end |-> weeks[k], bars |-> WeekBars(summary, weeks[k])]]

\* one chart with a panel for each week
create_combined_weekly_chart(B, is_unique, start_date_str, end_date_str, now) ==
    LET summary == export_summary(B, "weekly", is_unique, NoDate,
                                  start_date_str, end_date_str, now)
        weeks == WeeksOf(summary)
    IN  IF summary = << >> THEN << >>
        ELSE IF Len(weeks) = 0 THEN << >>
        ELSE <<[kind |-> "png",
                panels |-> [k \in 1..Len(weeks) |-> WeekBars(summary, weeks[k])]]>>

\* the chart of the hours of one date in one instance
create_daily_chart_for_instance(B, is_unique, instance_id, date_str, now) ==
    LET summary ==
            execute(IF is_unique
                    THEN get_unique_visitors_by_hour_for_instance(B, instance_id, date_str, now)
                    ELSE get_hour_by_hour_summary_for_instance(B, instance_id, date_str, now))
    IN  IF summary = << >> THEN << >>
        ELSE <<[kind |-> "png", bars |-> HourBars(summary)]>>

\* the CSV file of the hours of one date in one instance: the instance id,
\* the date and a blank row come before the header
export_to_csv_for_instance(B, is_unique, instance_id, date_str, now) ==
    LET date == DefaultDate(date_str, now)
        summary ==
            execute(IF is_unique
                    THEN get_unique_visitors_by_hour_for_instance(B, instance_id, date, now)
                    ELSE get_hour_by_hour_summary_for_instance(B, instance_id, date, now))
    IN  IF summary = << >> THEN << >>
        ELSE <<[kind |-> "csv",
                header |-> <<<<"Instance ID", instance_id>>, <<"Date", date>>, << >>,
                             fieldnames("hourly", is_unique)>>,
                rows |-> [i \in 1..Len(summary) |->
                             written_row(summary[i], "hourly", is_unique)]]>>

---------------------------------------------------------------------------
(* State machine *)

\* the command line without any option
NoArgs == [date |-> NoDate, start_date |-> NoDate, end_date |-> NoDate,
           weekly |-> FALSE, day_of_week |-> FALSE, average |-> FALSE,
           list_instances |-> FALSE, unique |-> FALSE, export_data |-> FALSE,
           world_id |-> NoId, instance_id |-> NoId]

NoCall == [op |-> "none", unique |-> FALSE, date |-> NoDate, start |-> NoDate,
           end |-> NoDate, world |-> NoId, instance |-> NoId,
           now |-> <<0, 0, 0>>, args |-> NoArgs, mode |-> "none"]

\* the clock readings one call can take: each datetime.now() reads the clock
\* at or after the previous reading
Readings ==
    {n \in (clock..MaxClock) \X (clock..MaxClock) \X (clock..MaxClock) :
        n[1] = clock /\ n[1] <= n[2] /\ n[2] <= n[3]}

Init ==
    /\ store = EmptyBag
    /\ clock = ClockStart
    /\ pc = "idle"
    /\ call = NoCall
    /\ result = << >>
    /\ connection = "none"
    /\ readable = TRUE
    /\ again = << >>
    /\ charts = << >>
    /\ outcome = "none"

\* VRCX, the owner of the table, appends a join or leave row
AppendRow ==
    /\ pc = "idle"
    /\ BagCardinality(store) < MaxRows
    /\ \E r \in Rows : store' = store (+) SetToBag({r})
    /\ UNCHANGED <<clock, pc, call, result, connection, readable, again, charts,
                 outcome>>

\* a request returns r; the connection is open from the first query on
\* (if not self.connection: self.connect())
Returns(c, r) ==
    /\ pc = "idle"
    /\ pc' = "returned"
    /\ call' = c
    /\ result' = r
    /\ clock' = c.now[3]
    /\ connection' = "open"
    /\ UNCHANGED <<store, readable, again, charts, outcome>>

\* a query method returns what execute gives for its query
Answers(c, rows) == Returns(c, execute(rows))

CallHourly ==
    \E unique \in BOOLEAN, date_str \in QueryDates \cup {NoDate}, now \in Readings :
        Answers([NoCall EXCEPT !.op = "hourly", !.unique = unique,
                               !.date = date_str, !.now = now],
                IF unique THEN get_unique_visitors_by_hour(store, date_str, now)
                ELSE get_hour_by_hour_summary(store, date_str, now))

CallHourlyForInstance ==
    \E unique \in BOOLEAN, date_str \in QueryDates, now \in Readings,
       instance_id \in Locations :
        Answers([NoCall EXCEPT !.op = "hourly_instance", !.unique = unique,
                               !.date = date_str, !.instance = instance_id,
                               !.now = now],
                IF unique
                THEN get_unique_visitors_by_hour_for_instance(store, instance_id, date_str, now)
                ELSE get_hour_by_hour_summary_for_instance(store, instance_id, date_str, now))

CallHourlyForWorld ==
    \E unique \in BOOLEAN, date_str \in QueryDates, now \in Readings,
       world_id \in Worlds :
        Answers([NoCall EXCEPT !.op = "hourly_world", !.unique = unique,
                               !.date = date_str, !.world = world_id,
                               !.now = now],
                IF unique
                THEN get_unique_visitors_by_hour_for_world(store, world_id, date_str, now)
                ELSE get_hour_by_hour_summary_for_world(store, world_id, date_str, now))

\* the ranges asked for: one day, eight days, empty (start after end), and
\* the defaults
Ranges == (QueryDates \X QueryDates) \cup {<<NoDate, NoDate>>, <<1, NoDate>>}

RangeCall(op, unique, range, now) ==
    [NoCall EXCEPT !.op = op, !.unique = unique, !.start = range[1],
                   !.end = range[2], !.now = now]

\* only the first reading matters to a range query
RangeReadings == {n \in Readings : n[2] = n[1] /\ n[3] = n[1]}

CallAverage ==
    \E unique \in BOOLEAN, range \in Ranges, now \in RangeReadings :
        Answers(RangeCall("average", unique, range, now),
                IF unique
                THEN get_unique_visitors_average(store, range[1], range[2], now)
                ELSE get_hour_by_hour_average(store, range[1], range[2], now))

CallDayOfWeek ==
    \E unique \in BOOLEAN, range \in Ranges, now \in RangeReadings :
        Answers(RangeCall("day_of_week", unique, range, now),
                IF unique
                THEN get_unique_visitors_day_of_week(store, range[1], range[2], now)
                ELSE get_day_of_week_average(store, range[1], range[2], now))

CallWeekly ==
    \E unique \in BOOLEAN, range \in Ranges, now \in RangeReadings :
        Answers(RangeCall("weekly", unique, range, now),
                IF unique
                THEN get_unique_visitors_weekly(store, range[1], range[2], now)
                ELSE get_weekly_day_of_week_breakdown(store, range[1], range[2], now))

CallDaily ==
    \E range \in Ranges, now \in RangeReadings :
        Answers(RangeCall("daily", TRUE, range, now),
                get_unique_visitors_daily(store, range[1], range[2], now))

CallDailyHourly ==
    \E range \in Ranges, now \in RangeReadings :
        Answers(RangeCall("daily_hourly", FALSE, range, now),
                get_daily_hourly_summary(store, range[1], range[2], now))

CallInstancesForWorld ==
    \E world_id \in Worlds, range \in Ranges, now \in RangeReadings :
        \E r \in get_unique_instances_for_world(store, world_id, range[1], range[2], now) :
            Answers([RangeCall("instances", FALSE, range, now) EXCEPT !.world = world_id], r)

\* the command lines of the filtered hourly reports
MainDateArgs == {1, NoDate}
MainInstanceArgs == {NoId, <<"1">>, Loc(WorldA, <<"1">>), Loc(WorldAB, <<"1">>)}
\* the command lines of the filtered hourly reports of one date
FilterArgs ==
    {a \in [date : MainDateArgs, start_date : {NoDate}, end_date : {NoDate},
            weekly : {FALSE}, day_of_week : {FALSE}, average : {FALSE},
            list_instances : {FALSE}, export_data : {FALSE},
            unique : BOOLEAN, world_id : Worlds \cup {NoId},
            instance_id : MainInstanceArgs] :
        a.world_id # NoId \/ a.instance_id # NoId}

\* the selections of dates: none, --date, --start-date with --end-date in
\* order and out of order
DateArgs ==
    {[date |-> NoDate, start_date |-> NoDate, end_date |-> NoDate],
     [date |-> 1, start_date |-> NoDate, end_date |-> NoDate],
     [date |-> NoDate, start_date |-> 1, end_date |-> 8],
     [date |-> NoDate, start_date |-> 8, end_date |-> 1]}

\* the mode flags: none, --average, --day-of-week, --weekly, --list-instances
ModeFlags ==
    {[weekly |-> w, day_of_week |-> d, average |-> a, list_instances |-> l] :
        w, d, a, l \in BOOLEAN} \ {f \in [weekly : BOOLEAN, day_of_week : BOOLEAN,
                                          average : BOOLEAN, list_instances : BOOLEAN] :
                                      Cardinality({k \in DOMAIN f : f[k]}) > 1}

\* the command lines of the modes, each with every selection of dates;
\* --list-instances goes with --world-id
ModeArgs ==
    {[NoArgs EXCEPT !.date = d.date, !.start_date = d.start_date,
                    !.end_date = d.end_date, !.weekly = f.weekly,
                    !.day_of_week = f.day_of_week, !.average = f.average,
                    !.list_instances = f.list_instances, !.unique = u,
                    !.world_id = IF f.list_instances THEN WorldA ELSE NoId] :
        d \in DateArgs, f \in ModeFlags, u \in BOOLEAN}

\* the command lines of a filter with a date range, and of a malformed --date
OtherArgs ==
    {[NoArgs EXCEPT !.start_date = r[1], !.end_date = r[2], !.world_id = w[1],
                    !.instance_id = w[2]] :
        r \in {<<1, 8>>, <<8, 1>>},
        w \in {<<WorldA, NoId>>, <<NoId, Loc(WorldA, <<"1">>)>>}}
    \cup {[NoArgs EXCEPT !.date = BadDate],
          [NoArgs EXCEPT !.date = BadDate, !.world_id = WorldA]}

MainArgs == FilterArgs \cup ModeArgs \cup OtherArgs

\* main() up to the end of its report phase; every query of the request reads
\* the clock as the first one does
Main ==
    \E args \in MainArgs, now \in Readings :
        Returns([NoCall EXCEPT !.op = "main", !.unique = args.unique,
                               !.date = args.date, !.start = args.start_date,
                               !.end = args.end_date, !.world = args.world_id,
                               !.instance = args.instance_id, !.now = now,
                               !.args = args],
                main_report(store, args,
                            [i \in 1..(Len(LoopDates(args.start_date, args.end_date)) + 1)
                                |-> now]))

AggregationOps ==
    {"hourly", "hourly_instance", "hourly_world", "average", "day_of_week",
     "weekly", "daily", "daily_hourly"}

\* the query method a call names, on its parameters
QueryOf(c, B) ==
    CASE c.op = "hourly" ->
             IF c.unique THEN get_unique_visitors_by_hour(B, c.date, c.now)
             ELSE get_hour_by_hour_summary(B, c.date, c.now)
      [] c.op = "hourly_instance" ->
             IF c.unique
             THEN get_unique_visitors_by_hour_for_instance(B, c.instance, c.date, c.now)
             ELSE get_hour_by_hour_summary_for_instance(B, c.instance, c.date, c.now)
      [] c.op = "hourly_world" ->
             IF c.unique
             THEN get_unique_visitors_by_hour_for_world(B, c.world, c.date, c.now)
             ELSE get_hour_by_hour_summary_for_world(B, c.world, c.date, c.now)
      [] c.op = "average" ->
             IF c.unique THEN get_unique_visitors_average(B, c.start, c.end, c.now)
             ELSE get_hour_by_hour_average(B, c.start, c.end, c.now)
      [] c.op = "day_of_week" ->
             IF c.unique THEN get_unique_visitors_day_of_week(B, c.start, c.end, c.now)
             ELSE get_day_of_week_average(B, c.start, c.end, c.now)
      [] c.op = "weekly" ->
             IF c.unique THEN get_unique_visitors_weekly(B, c.start, c.end, c.now)
             ELSE get_weekly_day_of_week_breakdown(B, c.start, c.end, c.now)
      [] c.op = "daily" -> get_unique_visitors_daily(B, c.start, c.end, c.now)
      [] c.op = "daily_hourly" -> get_daily_hourly_summary(B, c.start, c.end, c.now)

\* the caller calls the query that returned once more, with the same
\* parameters, while the clock still shows the hour the first call read
Repeat ==
    /\ pc = "returned"
    /\ call.op \in AggregationOps
    /\ call.now[1] = clock /\ call.now[2] = clock /\ call.now[3] = clock
    /\ pc' = "repeated"
    /\ again' = execute(QueryOf(call, store))
    /\ UNCHANGED <<store, clock, call, result, connection, readable, charts, outcome>>

\* the request is over; the next one starts from the table and the clock as
\* they are
Exit ==
    /\ pc \in {"returned", "repeated"}
    /\ pc' = "idle"
    /\ call' = NoCall
    /\ result' = << >>
    /\ again' = << >>
    /\ UNCHANGED <<store, clock, connection, readable, charts, outcome>>

\* the queries of VRCXQuery, each called on any table
Next ==
    \/ AppendRow
    \/ CallHourly
    \/ CallHourlyForInstance
    \/ CallHourlyForWorld
    \/ CallAverage
    \/ CallDayOfWeek
    \/ CallWeekly
    \/ CallDaily
    \/ CallDailyHourly
    \/ CallInstancesForWorld
    \/ Exit

Spec == Init /\ [][Next]_vars

\* the queries of VRCXQuery, each of which the caller may call twice
NextSession ==
    \/ AppendRow
    \/ CallHourly
    \/ CallHourlyForInstance
    \/ CallHourlyForWorld
    \/ CallAverage
    \/ CallDayOfWeek
    \/ CallWeekly
    \/ CallDaily
    \/ CallDailyHourly
    \/ Repeat
    \/ Exit

SpecSession == Init /\ [][NextSession]_vars

\* the store becomes unreadable (the file is locked or damaged, or the table
\* is missing): from now on SQLite raises an error on every query
StoreBreaks ==
    /\ pc = "idle"
    /\ readable
    /\ readable' = FALSE
    /\ UNCHANGED <<store, clock, pc, call, result, connection, again, charts,
                 outcome>>

\* the requests served by main() on a store that may fail
NextStore ==
    \/ AppendRow
    \/ StoreBreaks
    \/ Main
    \/ Exit

SpecStore == Init /\ [][NextStore]_vars

\* the requests served by main()
NextMain ==
    \/ AppendRow
    \/ Main
    \/ Exit

SpecMain == Init /\ [][NextMain]_vars

Emitters ==
    {"export_to_csv", "export_to_excel", "create_average_chart",
     "create_daily_chart", "create_day_of_week_chart", "create_weekly_charts",
     "create_combined_weekly_chart"}

\* the summary the emitter of call c queries on table B
EmitterSummary(c, B) ==
    export_summary(B, c.mode, c.unique, c.date, c.start, c.end, c.now)

\* the files the emitter of call c writes on table B
EmitterFiles(c, B) ==
    CASE c.op = "export_to_csv" ->
            export_to_csv(B, c.mode, c.unique, c.date, c.start, c.end, c.now)
      [] c.op = "export_to_excel" ->
            export_to_excel(B, c.mode, c.unique, c.date, c.start, c.end, c.now)
      [] c.op = "create_average_chart" ->
            create_average_chart(B, c.unique, c.start, c.end, c.now)
      [] c.op = "create_daily_chart" ->
            create_daily_chart(B, c.unique, c.date, c.now)
      [] c.op = "create_day_of_week_chart" ->
            create_day_of_week_chart(B, c.unique, c.start, c.end, c.now)
      [] c.op = "create_weekly_charts" ->
            create_weekly_charts(B, c.unique, c.start, c.end, c.now)
      [] c.op = "create_combined_weekly_chart" ->
            create_combined_weekly_chart(B, c.unique, c.start, c.end, c.now)

\* the mode a chart creator fixes; the exports take any
EmitterModes(op) ==
    CASE op = "create_average_chart" -> {"average"}
      [] op = "create_daily_chart" -> {"hourly"}
      [] op = "create_day_of_week_chart" -> {"day_of_week"}
      [] op = "create_weekly_charts" -> {"weekly"}
      [] op = "create_combined_weekly_chart" -> {"weekly"}
      [] OTHER -> ExportModes

\* one emitter is called; the result is the sequence of files it wrote
Emit ==
    \E op \in Emitters, unique \in BOOLEAN, now \in RangeReadings :
        \E mode \in EmitterModes(op) :
            \E range \in IF mode = "hourly" THEN {<<NoDate, NoDate>>} ELSE Ranges,
               date_str \in IF mode = "hourly" THEN QueryDates \cup {NoDate}
                            ELSE {NoDate} :
                LET c == [NoCall EXCEPT !.op = op, !.mode = mode,
                                        !.unique = unique, !.date = date_str,
                                        !.start = range[1], !.end = range[2],
                                        !.now = now]
                IN  Returns(c, EmitterFiles(c, store))

\* the emitters, each called on any table, readable or not
NextEmit ==
    \/ AppendRow
    \/ StoreBreaks
    \/ Emit
    \/ Exit

SpecEmit == Init /\ [][NextEmit]_vars

---------------------------------------------------------------------------
(* main(): the whole request, from the connection to its close *)

\* the files the emitter call c writes on table B, the emitters of an
\* instance included
EmissionFiles(c, B) ==
    CASE c.op = "create_daily_chart_for_instance" ->
            create_daily_chart_for_instance(B, c.unique, c.instance, c.date, c.now)
      [] c.op = "export_to_csv_for_instance" ->
            export_to_csv_for_instance(B, c.unique, c.instance, c.date, c.now)
      [] OTHER -> EmitterFiles(c, B)

\* the arguments as the report phase leaves them to the chart phase: the list
\* branch and the instance branch default the range, the instance branch
\* materialises the instance id
AfterReport(args, now) ==
    LET start == IF args.start_date # NoDate THEN args.start_date
                 ELSE IF args.date # NoDate THEN args.date
                 ELSE DATE(now[1])
        ranged == [args EXCEPT !.start_date = start,
                               !.end_date = IF @ = NoDate THEN start ELSE @]
    IN  IF args.list_instances THEN (IF args.world_id = NoId THEN args ELSE ranged)
        ELSE IF args.instance_id # NoId
        THEN [ranged EXCEPT !.instance_id = Materialize(args.world_id, args.instance_id)]
        ELSE args

\* the report phase raises: --weekly without a filter calls
\* print_weekly_day_of_week_breakdown, a name defined nowhere
report_raises(args) ==
    /\ ~args.list_instances
    /\ args.instance_id = NoId
    /\ args.world_id = NoId
    /\ args.weekly

\* one call of an emitter by the chart phase
ChartCall(op, mode, args, instance_id, date_str, start_date_str, end_date_str, now) ==
    [NoCall EXCEPT !.op = op, !.mode = mode, !.unique = args.unique,
                   !.instance = instance_id, !.date = date_str,
                   !.start = start_date_str, !.end = end_date_str, !.now = now]

\* if args.export_data: export_to_csv, then export_to_excel
Exports(mode, args, date_str, start_date_str, end_date_str, now) ==
    IF args.export_data
    THEN <<ChartCall("export_to_csv", mode, args, NoId, date_str,
                     start_date_str, end_date_str, now),
           ChartCall("export_to_excel", mode, args, NoId, date_str,
                     start_date_str, end_date_str, now)>>
    ELSE << >>

\* the emitter calls of the chart phase, in order: --weekly, --day-of-week,
\* --average, --instance-id, a date range, a single date.  There is no branch
\* for --world-id.  args0 are the parsed arguments, args those the report
\* phase left.
chart_calls(args0, args, now) ==
    IF args.weekly
    THEN <<ChartCall("create_weekly_charts", "weekly", args, NoId, NoDate,
                     args.start_date, args.end_date, now),
           ChartCall("create_combined_weekly_chart", "weekly", args, NoId, NoDate,
                     args.start_date, args.end_date, now)>>
         \o Exports("weekly", args, NoDate, args.start_date, args.end_date, now)
    ELSE IF args.day_of_week
    THEN <<ChartCall("create_day_of_week_chart", "day_of_week", args, NoId, NoDate,
                     args.start_date, args.end_date, now)>>
         \o Exports("day_of_week", args, NoDate, args.start_date, args.end_date, now)
    ELSE IF args.average
    THEN <<ChartCall("create_average_chart", "average", args, NoId, NoDate,
                     args.start_date, args.end_date, now)>>
         \o Exports("average", args, NoDate, args.start_date, args.end_date, now)
    ELSE IF args.instance_id # NoId
    THEN IF args.date # NoDate
         THEN <<ChartCall("create_daily_chart_for_instance", "hourly", args,
                          args.instance_id, args.date, NoDate, NoDate, now)>>
              \o (IF args.export_data
                  THEN <<ChartCall("export_to_csv_for_instance", "hourly", args,
                                   args.instance_id, args.date, NoDate, NoDate, now)>>
                  ELSE << >>)
         ELSE IF is_date_range(args0)
         THEN LET ds == LoopDates(args.start_date, args.end_date)
              IN  [i \in 1..Len(ds) |->
                      ChartCall("create_daily_chart_for_instance", "hourly", args,
                                args.instance_id, ds[i], NoDate, NoDate, now)]
         ELSE << >>
    ELSE IF is_date_range(args0)
    THEN LET ds == LoopDates(args.start_date, args.end_date)
         IN  [i \in 1..Len(ds) |->
                 ChartCall("create_daily_chart", "hourly", args, NoId, ds[i],
                           NoDate, NoDate, now)]
             \o Exports("daily", args, NoDate, args.start_date, args.end_date, now)
    ELSE <<ChartCall("create_daily_chart", "hourly", args, NoId, args.date,
                     NoDate, NoDate, now)>>
         \o Exports("hourly", args, args.date, NoDate, NoDate, now)

\* the chart phase raises: the export of an instance over a range appends a
\* string to a Path (csv_file += ...), a TypeError, after the charts
charts_raise(args0, args) ==
    /\ ~args.weekly /\ ~args.day_of_week /\ ~args.average
    /\ args.instance_id # NoId
    /\ args.date = NoDate
    /\ is_date_range(args0)
    /\ args.export_data

\* the rows VRCX appends while requests are served
RunRows ==
    {r \in Rows : r.display_name = "Ann" /\ r.created_at \in {At(1, 8), At(8, 8)}}

\* VRCX appends a row at any time, also in the middle of a request
VRCXAppends ==
    /\ BagCardinality(store) < MaxRows
    /\ \E r \in RunRows : store' = store (+) SetToBag({r})
    /\ UNCHANGED <<clock, pc, call, result, connection, readable, again, charts,
                 outcome>>

\* the selections of dates of a request: none, --date, a range in order and
\* out of order, --date together with a range
RunDateArgs ==
    DateArgs \cup {[date |-> 1, start_date |-> 1, end_date |-> 8]}

RunFilters ==
    {<<NoId, NoId>>, <<WorldA, NoId>>, <<NoId, Loc(WorldA, <<"1">>)>>,
     <<WorldA, <<"1">>>>}

\* the command lines of the requests: every mode with every selection of
\* dates and every filter; --unique and --export-data with some of them
RunArgs ==
    {[NoArgs EXCEPT !.date = d.date, !.start_date = d.start_date,
                    !.end_date = d.end_date, !.weekly = f.weekly,
                    !.day_of_week = f.day_of_week, !.average = f.average,
                    !.list_instances = f.list_instances, !.unique = u,
                    !.export_data = x, !.world_id = w[1], !.instance_id = w[2]] :
        d \in RunDateArgs, f \in ModeFlags, u \in BOOLEAN, x \in BOOLEAN,
        w \in RunFilters}

\* the first reading of the clock by the request a call of the chart phase
\* belongs to
RunNows(args, now) ==
    [i \in 1..(Len(LoopDates(args.start_date, args.end_date)) + 1) |-> now]

\* main() parses the arguments, determines the dates and connects
MainStart ==
    /\ pc = "idle"
    /\ \E args \in RunArgs, now \in RangeReadings :
        /\ call' = [NoCall EXCEPT !.op = "main", !.unique = args.unique,
                                  !.date = args.date, !.start = args.start_date,
                                  !.end = args.end_date, !.world = args.world_id,
                                  !.instance = args.instance_id, !.now = now,
                                  !.args = args]
        /\ clock' = now[3]
    /\ pc' = "connected"
    /\ connection' = "open"
    /\ result' = << >>
    /\ charts' = << >>
    /\ outcome' = "none"
    /\ UNCHANGED <<store, readable, again>>

\* the report phase: the tables are printed, or the phase raises; the two
\* list modes close the connection and return
MainReport ==
    /\ pc = "connected"
    /\ LET args == MainDates(call.args, call.now)
       IN  IF report_raises(args)
           THEN /\ result' = << >>
                /\ pc' = "failed"
                /\ outcome' = "error"
                /\ connection' = connection
           ELSE /\ result' = main_report(store, call.args, RunNows(call.args, call.now))
                /\ IF args.list_instances
                   THEN /\ pc' = "listed"
                        /\ outcome' = "listed"
                        /\ connection' = "closed"
                   ELSE /\ pc' = "reported"
                        /\ outcome' = outcome
                        /\ connection' = connection
    /\ UNCHANGED <<store, clock, call, readable, again, charts>>

\* the chart phase: every emitter call reads the table anew
MainCharts ==
    /\ pc = "reported"
    /\ LET args == AfterReport(MainDates(call.args, call.now), call.now)
           cs == chart_calls(call.args, args, call.now)
       IN  /\ charts' = [i \in 1..Len(cs) |->
                            [call |-> cs[i], files |-> EmissionFiles(cs[i], store)]]
           /\ IF charts_raise(call.args, args)
              THEN pc' = "failed" /\ outcome' = "error"
              ELSE pc' = "charted" /\ outcome' = "completed"
    /\ UNCHANGED <<store, clock, call, result, connection, readable, again>>

\* faulty variant of MainFinally: the rows are deleted before the close
MainFinally_deleting ==
    /\ pc \in {"charted", "failed", "listed"}
    /\ pc' = "returned"
    /\ connection' = "closed"
    /\ store' = EmptyBag
    /\ UNCHANGED <<clock, call, result, readable, again, charts, outcome>>

\* faulty variant of MainFinally: main returns without the close
MainFinally_no_close ==
    /\ pc \in {"charted", "failed", "listed"}
    /\ pc' = "returned"
    /\ UNCHANGED <<store, clock, call, result, connection, readable, again, charts,
                 outcome>>

\* finally: db.close()
MainFinally ==
    /\ pc \in {"charted", "failed", "listed"}
    /\ pc' = "returned"
    /\ connection' = "closed"
    /\ UNCHANGED <<store, clock, call, result, readable, again, charts, outcome>>

\* the process ends; the next request is a new process
ProcessEnds ==
    /\ pc = "returned"
    /\ call.op = "main"
    /\ pc' = "idle"
    /\ call' = NoCall
    /\ result' = << >>
    /\ charts' = << >>
    /\ outcome' = "none"
    /\ connection' = "none"
    /\ UNCHANGED <<store, clock, readable, again>>

\* requests of main(), run from start to end while VRCX appends rows
NextRun ==
    \/ VRCXAppends
    \/ MainStart
    \/ MainReport
    \/ MainCharts
    \/ MainFinally
    \/ ProcessEnds

SpecRun == Init /\ [][NextRun]_vars

TypeOK ==
    /\ IsABag(store)
    /\ clock \in ClockStart..MaxClock
    /\ pc \in {"idle", "returned", "repeated", "connected", "reported", "charted",
              "failed", "listed"}
    /\ connection \in {"none", "open", "closed"}
    /\ outcome \in {"none", "completed", "listed", "error"}
    /\ readable \in BOOLEAN

---------------------------------------------------------------------------
(* Properties of the hour-of-day queries *)

HourlyOps == {"hourly", "hourly_instance", "hourly_world"}

RawHourlyReturned == pc = "returned" /\ call.op \in HourlyOps /\ ~call.unique
UniqueHourlyReturned == pc = "returned" /\ call.op \in HourlyOps /\ call.unique

\* the date the returned hourly call asked for
CallDate == IF call.date = NoDate THEN DATE(call.now[1]) ELSE call.date

\* the part of a location before its first ':'
WorldOf(location) == SubSeq(location, 1, INSTR(location) - 1)

\* the rows of the table that pass the filter of the returned call as the
\* queries apply it: none, location = instance, location starts with world
Filtered ==
    {r \in BagToSet(store) :
        CASE call.op = "hourly_instance" -> r.location = call.instance
          [] call.op = "hourly_world" ->
                 /\ Len(r.location) >= Len(call.world)
                 /\ \A k \in 1..Len(call.world) : r.location[k] = call.world[k]
          [] OTHER -> TRUE}

\* the rows of a set at one hour of one date
AtDateHour(S, d, h) == {r \in S : r.created_at = d * 24 + h}
\* the rows of a set on one date
AtDate(S, d) == {r \in S : r.created_at >= d * 24 /\ r.created_at < (d + 1) * 24}
\* the number of rows of the table that are in S, each copy counted
NumRows(S) == SumCopies(store, S)
\* the display names the rows of S give
NamesOf(S) == {n \in Names : \E r \in S : r.display_name = n}

\* C1: in raw mode the count of every hour of the output is the number of
\* rows of the table that pass the filter at that date and hour, each join
\* and each leave row counted once, the rows without a display name included.
C1_RawHourlyCountsEveryRow ==
    RawHourlyReturned =>
        \A i \in 1..Len(result) :
            result[i].count = NumRows(AtDateHour(Filtered, CallDate, result[i].hour))

\* C2: in unique mode the count of every bucket (an hour of a date, a date,
\* a date inside a week) is the number of distinct display names among the
\* filtered rows of the bucket.
C2_UniqueCountsDistinctNames ==
    /\ UniqueHourlyReturned =>
           \A i \in 1..Len(result) :
               result[i].count =
                   Cardinality(NamesOf(AtDateHour(Filtered, CallDate, result[i].hour)))
    /\ pc = "returned" /\ call.op = "daily" =>
           \A i \in 1..Len(result) :
               result[i].count =
                   Cardinality(NamesOf(AtDate(BagToSet(store), result[i].date)))
    /\ pc = "returned" /\ call.op = "weekly" /\ call.unique =>
           \A i \in 1..Len(result) :
               result[i].count =
                   Cardinality(NamesOf(AtDate(BagToSet(store),
                       result[i].week_start + ((result[i].day_of_week + 6) % 7))))

\* a unique hourly call returned 1 for an hour in which one person has two
\* rows
C2_Witness ==
    /\ UniqueHourlyReturned
    /\ \E i \in 1..Len(result) :
           /\ result[i].count = 1
           /\ NumRows(AtDateHour(Filtered, CallDate, result[i].hour)) = 2
           /\ \A r \in AtDateHour(Filtered, CallDate, result[i].hour) :
                  r.display_name # NULL

\* the raw-mode output of the query the returned unique call belongs to, for
\* the same parameters, table and clock readings
RawCounterpart ==
    CASE call.op = "hourly" -> get_hour_by_hour_summary(store, call.date, call.now)
      [] call.op = "hourly_instance" ->
             get_hour_by_hour_summary_for_instance(store, call.instance, call.date, call.now)
      [] call.op = "hourly_world" ->
             get_hour_by_hour_summary_for_world(store, call.world, call.date, call.now)
      [] call.op = "average" ->
             get_hour_by_hour_average(store, call.start, call.end, call.now)
      [] call.op = "day_of_week" ->
             get_day_of_week_average(store, call.start, call.end, call.now)
      [] call.op = "weekly" ->
             get_weekly_day_of_week_breakdown(store, call.start, call.end, call.now)

\* the bucket an output row is about
Bucket(row) ==
    CASE call.op \in HourlyOps \cup {"average"} -> <<row.hour>>
      [] call.op = "day_of_week" -> <<row.day_of_week>>
      [] call.op = "weekly" -> <<row.week_start, row.day_of_week>>

ComparedOps == HourlyOps \cup {"average", "day_of_week", "weekly"}

\* C3: every bucket of the unique-mode output that is also in the raw-mode
\* output for the same parameters has a value no greater than the raw one,
\* in the hourly, average, day-of-week and weekly queries, rounding included.
C3_UniqueAtMostRaw ==
    pc = "returned" /\ call.op \in ComparedOps /\ call.unique =>
        LET raw == RawCounterpart
        IN  \A i \in 1..Len(result) : \A j \in 1..Len(raw) :
                Bucket(result[i]) = Bucket(raw[j]) =>
                    result[i].count <= raw[j].count

\* a unique average over several days returned less than the raw average in
\* some hour, and more than 0
C3_Witness ==
    /\ pc = "returned" /\ call.op = "average" /\ call.unique
    /\ call.start = 1 /\ call.end = 8
    /\ LET raw == RawCounterpart
       IN  \E i \in 1..Len(result) :
               /\ Bucket(result[i]) = Bucket(raw[i])
               /\ 0 < result[i].count
               /\ result[i].count < raw[i].count

\* the hours 0..23, one entry each, in ascending order, no count negative
AllHours(rows) ==
    /\ Len(rows) = 24
    /\ \A i \in 1..24 : rows[i].hour = i - 1 /\ rows[i].count \in Nat

\* C4: for a requested date that is not the current date the hour-of-day
\* output has exactly 24 entries, the hours 0..23 ascending, each count >= 0,
\* whatever the table holds.
C4_PastDateHas24Hours ==
    pc = "returned" /\ call.op \in HourlyOps
    /\ (\A k \in 1..3 : CallDate # DATE(call.now[k]))
        => AllHours(result)

\* an hourly call for a past date returned a count for an hour with rows and
\* 0 for another hour
C4_Witness ==
    /\ pc = "returned" /\ call.op \in HourlyOps /\ CallDate = 1
    /\ DATE(call.now[1]) = 8
    /\ \E i \in 1..Len(result) : result[i].count > 0
    /\ \E i \in 1..Len(result) : result[i].count = 0

\* C5: when the requested date is the current date the hour-of-day output has
\* exactly current hour + 1 entries, the hours 0 to the current hour; no later
\* hour is in the output.  The current hour is the one the call reads.
C5_TodayStopsAtCurrentHour ==
    pc = "returned" /\ call.op \in HourlyOps
    /\ (\A k \in 1..3 : CallDate = DATE(call.now[k]))
        => /\ Len(result) = HOUR(call.now[3]) + 1
           /\ \A i \in 1..Len(result) : result[i].hour = i - 1
           /\ \A i \in 1..Len(result) : result[i].hour <= HOUR(call.now[3])

\* an hourly call for today returned at hour 8 while the table already holds a
\* row of today's hour 9
C5_Witness ==
    /\ pc = "returned" /\ call.op \in HourlyOps
    /\ CallDate = DATE(call.now[2])
    /\ HOUR(call.now[3]) = 8
    /\ Len(result) = 9
    /\ AtDateHour(Filtered, CallDate, 9) # {}

\* C6: the world filter counts no row of another world: the hourly counts of
\* a world are taken over the rows whose location is of that world, and the
\* instances listed for a world are instances of that world.
C6_WorldFilterIsExact ==
    /\ pc = "returned" /\ call.op = "hourly_world" =>
           \A i \in 1..Len(result) :
               LET rows == {r \in AtDateHour(BagToSet(store), CallDate, result[i].hour) :
                               WorldOf(r.location) = call.world}
               IN  result[i].count =
                       IF call.unique THEN Cardinality(NamesOf(rows))
                       ELSE NumRows({r \in rows : r.display_name # NULL})
    /\ pc = "returned" /\ call.op = "instances" =>
           \A i \in 1..Len(result) : WorldOf(result[i].instance_id) = call.world

---------------------------------------------------------------------------
(* Properties of the filtered reports of main() *)

MainReturned == pc = "returned" /\ call.op = "main"

\* the date main() reports on
MainDate == IF call.date = NoDate THEN DATE(call.now[1]) ELSE call.date

\* the one table of the instance query of a location, in the mode of the call
InstanceTable(location) ==
    <<[date |-> MainDate,
       rows |-> IF call.unique
                THEN get_unique_visitors_by_hour_for_instance(store, location, MainDate, call.now)
                ELSE get_hour_by_hour_summary_for_instance(store, location, MainDate, call.now)]>>

\* C7: a request with world filter W and an instance filter F without ':'
\* yields the result of the instance filter W + ':' + F.
C7_FragmentEqualsFullLocation ==
    MainReturned /\ call.world # NoId /\ call.instance # NoId
    /\ ~(\E k \in 1..Len(call.instance) : call.instance[k] = ":")
        => result = InstanceTable(call.world \o <<":">> \o call.instance)

\* a request with a world and a bare fragment returned a table with a count
C7_Witness ==
    /\ MainReturned /\ call.world # NoId /\ call.instance = <<"1">>
    /\ Len(result) = 1
    /\ \E i \in 1..Len(result[1].rows) : result[1].rows[i].count > 0

\* the location an instance filter names, given the world filter
FullLocation ==
    IF \E k \in 1..Len(call.instance) : call.instance[k] = ":"
    THEN call.instance
    ELSE call.world \o <<":">> \o call.instance

\* C8: with both a world filter and an instance filter the report is the
\* instance report: the rows counted are those of the date whose location
\* equals the full instance id, whatever world the world filter names.
C8_BothFiltersGiveInstanceReport ==
    MainReturned /\ call.world # NoId /\ call.instance # NoId =>
        /\ Len(result) = 1
        /\ result[1].date = MainDate
        /\ \A i \in 1..Len(result[1].rows) :
               LET rows == {r \in AtDateHour(BagToSet(store), MainDate,
                                             result[1].rows[i].hour) :
                               r.location = FullLocation}
               IN  result[1].rows[i].count =
                       IF call.unique THEN Cardinality(NamesOf(rows))
                       ELSE NumRows({r \in rows : r.display_name # NULL})

\* a request with both filters returned 1 for an hour in which the world has
\* two rows, one of them at another instance
C8_Witness ==
    /\ MainReturned /\ call.world = WorldA /\ call.instance # NoId
    /\ ~call.unique
    /\ \E i \in 1..Len(result[1].rows) :
           /\ result[1].rows[i].count = 1
           /\ NumRows({r \in AtDateHour(BagToSet(store), MainDate,
                                        result[1].rows[i].hour) :
                          WorldOf(r.location) = WorldA /\ r.display_name # NULL}) = 2

---------------------------------------------------------------------------
(* Properties of the hour-by-hour average *)

AverageReturned == pc = "returned" /\ call.op = "average"

\* the range the returned call asked for
CallStart == IF call.start = NoDate THEN DATE(call.now[1]) ELSE call.start
CallEnd == IF call.end = NoDate THEN CallStart ELSE call.end

\* the count of one hour of one day, in the mode of the call
DayHourCount(d, h) ==
    IF call.unique THEN Cardinality(NamesOf(AtDateHour(BagToSet(store), d, h)))
    ELSE NumRows(AtDateHour(BagToSet(store), d, h))

\* the sum of the counts of hour h over the days d .. CallEnd
RECURSIVE SumDays(_, _)
SumDays(d, h) ==
    IF d > CallEnd THEN 0 ELSE DayHourCount(d, h) + SumDays(d + 1, h)

\* C9: the average of hour H over a range is the rounded mean over every day
\* of the range, a day without rows in hour H counting 0: the denominator is
\* the number of days of the range.
C9_AverageOverEveryDay ==
    AverageReturned /\ CallStart <= CallEnd =>
        \A i \in 1..Len(result) :
            result[i].count =
                (2 * SumDays(CallStart, result[i].hour) + (CallEnd - CallStart + 1))
                    \div (2 * (CallEnd - CallStart + 1))

\* C10: the hour-by-hour average has exactly 24 entries, the hours 0..23
\* ascending, for every range and table, and 0 for an hour without rows on
\* any day of the range.
C10_AverageHas24Hours ==
    AverageReturned =>
        /\ AllHours(result)
        /\ \A i \in 1..Len(result) :
               (\A r \in BagToSet(store) :
                    ~(/\ r.created_at >= CallStart * 24
                      /\ r.created_at < (CallEnd + 1) * 24
                      /\ r.created_at % 24 = result[i].hour))
                   => result[i].count = 0

\* an average over eight days returned 24 entries, with a count for an hour
\* that has rows and 0 for an hour that has none
C10_Witness ==
    /\ AverageReturned /\ call.start = 1 /\ call.end = 8
    /\ Len(result) = 24
    /\ \E i \in 1..Len(result) : result[i].count > 0
    /\ \E i \in 1..Len(result) : result[i].count = 0

---------------------------------------------------------------------------
(* Properties of the range queries *)

\* C11: the calendar-date output over a range has an entry for every date of
\* the range, with count 0 for a date without rows (for every hour of every
\* date in the daily breakdown by hour).
C11_DailyHasEveryDate ==
    /\ pc = "returned" /\ call.op = "daily" =>
           \A d \in CallStart..CallEnd :
               \E i \in 1..Len(result) :
                   /\ result[i].date = d
                   /\ AtDate(BagToSet(store), d) = {} => result[i].count = 0
    /\ pc = "returned" /\ call.op = "daily_hourly" =>
           \A d \in CallStart..CallEnd : \A h \in 0..23 :
               \E i \in 1..Len(result) :
                   /\ result[i].date = d /\ result[i].hour = h
                   /\ AtDateHour(BagToSet(store), d, h) = {} => result[i].count = 0

\* the count of one day, in the mode of the call
DayCount(d) ==
    IF call.unique THEN Cardinality(NamesOf(AtDate(BagToSet(store), d)))
    ELSE NumRows(AtDate(BagToSet(store), d))

\* the dates of the range of the call that hold rows and fall on weekday w
DatesOnWeekday(w) ==
    {d \in CallStart..CallEnd : d % 7 = w /\ AtDate(BagToSet(store), d) # {}}

\* the sum of the counts of the days d .. CallEnd that fall on weekday w
RECURSIVE SumWeekday(_, _)
SumWeekday(d, w) ==
    IF d > CallEnd THEN 0
    ELSE (IF d % 7 = w THEN DayCount(d) ELSE 0) + SumWeekday(d + 1, w)

\* C12: the day-of-week average has an entry exactly for the weekdays
\* (0 = Sunday .. 6 = Saturday) on which a row of the range exists; its value
\* is the rounded mean of the per-date counts over the dates with rows on that
\* weekday; for a one-day range with rows it is one entry, the count of the day.
C12_DayOfWeekOnlyDaysWithRows ==
    pc = "returned" /\ call.op = "day_of_week" =>
        /\ \A i \in 1..Len(result) :
               LET w == result[i].day_of_week
                   n == Cardinality(DatesOnWeekday(w))
               IN  /\ w \in 0..6
                   /\ n > 0
                   /\ result[i].count = (2 * SumWeekday(CallStart, w) + n) \div (2 * n)
        /\ \A w \in 0..6 :
               DatesOnWeekday(w) # {} =>
                   Cardinality({i \in 1..Len(result) : result[i].day_of_week = w}) = 1
        /\ CallStart = CallEnd /\ AtDate(BagToSet(store), CallStart) # {} =>
               /\ Len(result) = 1
               /\ result[1].day_of_week = CallStart % 7
               /\ result[1].count = DayCount(CallStart)

\* a day-of-week average over eight days returned one entry, Monday, the mean
\* over the two Mondays of the range, both with rows, and none for the other
\* weekdays
C12_Witness ==
    /\ pc = "returned" /\ call.op = "day_of_week"
    /\ call.start = 1 /\ call.end = 8
    /\ AtDate(BagToSet(store), 1) # {} /\ AtDate(BagToSet(store), 8) # {}
    /\ Len(result) = 1
    /\ result[1].day_of_week = 1
    /\ result[1].count = 1

---------------------------------------------------------------------------
(* Properties of the weekly breakdown *)

WeeklyReturned == pc = "returned" /\ call.op = "weekly"

\* the dates of the range of the call that hold rows
DatesWithRows == {d \in CallStart..CallEnd : AtDate(BagToSet(store), d) # {}}

\* the earliest Sunday on or after date d
SundayFrom(d) == CHOOSE s \in d..(d + 6) : s % 7 = 0

\* C13: every entry of the weekly output is the entry of an event date d of
\* the range: week_end is the earliest Sunday >= d (d itself on a Sunday),
\* week_start is week_end - 6, so week_start <= d <= week_end; the week is the
\* whole week, inside the range or not; and every event date has its entry.
C13_WeekIsMondayToSunday ==
    WeeklyReturned =>
        /\ \A i \in 1..Len(result) :
               \E d \in DatesWithRows :
                   /\ result[i].day_of_week = d % 7
                   /\ result[i].week_end = SundayFrom(d)
                   /\ result[i].week_start = result[i].week_end - 6
                   /\ result[i].week_start <= d /\ d <= result[i].week_end
        /\ \A d \in DatesWithRows :
               \E i \in 1..Len(result) :
                   /\ result[i].day_of_week = d % 7
                   /\ result[i].week_end = SundayFrom(d)

\* a weekly call returned the week of Monday 2024-12-30 to Sunday 2025-01-05
\* for a row of that Monday and a row of that Sunday
C13_Witness ==
    /\ WeeklyReturned
    /\ DatesWithRows = {1, 7}
    /\ Len(result) = 2
    /\ \A i \in 1..2 : result[i].week_start = 1 /\ result[i].week_end = 7

---------------------------------------------------------------------------
(* Order of the outputs *)

\* the bucket key of an output row, as a pair
SortKey(row) ==
    CASE call.op \in HourlyOps \cup {"average"} -> <<0, row.hour>>
      [] call.op = "daily_hourly" -> <<row.date, row.hour>>
      [] call.op = "daily" -> <<0, row.date>>
      [] call.op = "day_of_week" -> <<0, row.day_of_week>>
      [] call.op = "weekly" -> <<row.week_start, row.day_of_week>>

KeyBefore(a, b) == a[1] < b[1] \/ (a[1] = b[1] /\ a[2] < b[2])

SortedOps == HourlyOps \cup {"average", "daily_hourly", "daily", "day_of_week", "weekly"}

\* C14: every aggregation output is strictly ascending in its bucket key, no
\* key twice: hour (hourly, average), (date, hour) (daily breakdown), date
\* (daily unique), weekday (day-of-week), (week_start, weekday) (weekly).
C14_OutputStrictlyAscending ==
    pc = "returned" /\ call.op \in SortedOps =>
        \A i, j \in 1..Len(result) :
            i < j => KeyBefore(SortKey(result[i]), SortKey(result[j]))

\* a weekly call returned two days of one week, the Sunday (weekday 0) before
\* the Monday (weekday 1)
C14_Witness ==
    /\ WeeklyReturned
    /\ Len(result) = 2
    /\ result[1].week_start = result[2].week_start
    /\ result[1].day_of_week = 0
    /\ result[2].day_of_week = 1

---------------------------------------------------------------------------
(* Repeated requests *)

---------------------------------------------------------------------------
(* Failures *)

\* C16: a failed read of the store is fatal to the request: when the query of
\* a request fails, the request produces no table, not a table without data.
C16_FailedReadIsFatal ==
    MainReturned /\ ~readable => result = << >>


---------------------------------------------------------------------------
(* C17: invalid ranges and malformed dates *)

\* the request names a range whose start is after its end
RangeOutOfOrder ==
    /\ call.args.start_date # NoDate
    /\ call.args.end_date # NoDate
    /\ call.args.start_date > call.args.end_date

\* the request names a date that is no date
DateMalformed == call.args.date = BadDate

\* C17: a request of main whose start date is after its end date, or whose
\* date is malformed, is rejected before any query is issued: it prints no
\* table.
C17_InvalidDatesAreRejected ==
    (MainReturned /\ (RangeOutOfOrder \/ DateMalformed)) => result = << >>

---------------------------------------------------------------------------
(* C18: a bare instance fragment without a world filter *)

\* the request gives an instance id without delimiter and no world id
BareFragment ==
    /\ call.args.instance_id # NoId
    /\ ~HasColon(call.args.instance_id)
    /\ call.args.world_id = NoId

\* C18: a request of main with a bare instance fragment and no world filter
\* is rejected before any query is issued: it prints no table.
C18_BareFragmentIsRejected ==
    (MainReturned /\ BareFragment) => result = << >>

---------------------------------------------------------------------------
(* C19: emitters on an empty summary *)

\* an emitter has returned
EmitReturned == pc = "returned" /\ call.op \in Emitters

\* C19: an emitter whose aggregation returns zero rows writes no file.
C19_EmptySummaryWritesNoFile ==
    (EmitReturned /\ EmitterSummary(call, store) = << >>) => result = << >>

\* the CSV export of a readable table with rows, none of them in the range
\* asked for, has written no file
C19_Witness ==
    /\ EmitReturned
    /\ call.op = "export_to_csv"
    /\ readable
    /\ store # EmptyBag
    /\ EmitterSummary(call, store) = << >>
    /\ result = << >>

---------------------------------------------------------------------------
(* C20: the default date *)

\* the request names no date and no end of a range
NoDatesGiven ==
    /\ call.args.date = NoDate
    /\ call.args.start_date = NoDate
    /\ call.args.end_date = NoDate

\* the arguments with the date d given explicitly: as the range d..d in the
\* modes that take a range, as --date d in the others
WithDate(args, d) ==
    IF args.weekly \/ args.day_of_week \/ args.average
    THEN [args EXCEPT !.start_date = d, !.end_date = d]
    ELSE [args EXCEPT !.date = d]

\* C20: a request of main without a date and without a range prints, in each
\* mode, what the same request prints with the current date given explicitly
\* as its single date.
C20_NoDateMeansToday ==
    (MainReturned /\ NoDatesGiven) =>
        result = main_report(store, WithDate(call.args, DATE(call.now[1])),
                             <<call.now, call.now>>)

\* a request for the averages without a date has printed the averages of
\* today, which holds a row
C20_Witness ==
    /\ MainReturned
    /\ NoDatesGiven
    /\ call.args.average
    /\ Len(result) = 1
    /\ result[1].start_date = DATE(call.now[1])
    /\ result[1].end_date = DATE(call.now[1])
    /\ \E i \in 1..Len(result[1].rows) : result[1].rows[i].count > 0

---------------------------------------------------------------------------
(* C21: one active date selection *)

\* a request of main has finished its chart phase
RunCharted == pc = "charted" /\ call.op = "main"

\* the request gives --date together with --start-date and --end-date
BothSelectionsGiven ==
    /\ call.args.date \in QueryDates
    /\ call.args.start_date # NoDate
    /\ call.args.end_date # NoDate

\* the report is the one table of the single date
ReportUsesDate ==
    /\ Len(result) = 1
    /\ "date" \in DOMAIN result[1]
    /\ result[1].date = call.args.date

\* every chart and export is one of the single date
ChartsUseDate ==
    \A i \in 1..Len(charts) :
        charts[i].call.date = call.args.date /\ charts[i].call.start = NoDate

\* C21: when --date is given together with a range, the report, the charts
\* and the exports of the request use the same one of the two selections.
C21_OneDateSelection ==
    (RunCharted /\ BothSelectionsGiven) => (ReportUsesDate <=> ChartsUseDate)

---------------------------------------------------------------------------
(* C22: one read pass *)

\* the request is the plain hourly report of one date: no filter, no mode
\* flag, no range
PlainSingleDate ==
    /\ call.args.world_id = NoId
    /\ call.args.instance_id = NoId
    /\ ~call.args.weekly /\ ~call.args.day_of_week /\ ~call.args.average
    /\ ~call.args.list_instances
    /\ ~is_date_range(call.args)

\* the chart or export file agrees with the printed table on every hour the
\* table has
AgreesWithTable(file, rows) ==
    IF file.kind = "png"
    THEN \A k \in 1..Len(rows) : file.bars[rows[k].hour] = rows[k].count
    ELSE file.rows = [k \in 1..Len(rows) |->
                         written_row(rows[k], "hourly", call.unique)]

\* C22: the table, the chart and the exports of one request show one query
\* result: a row appended during the request does not make them differ.
C22_OneReadPass ==
    (RunCharted /\ PlainSingleDate) =>
        \A i \in 1..Len(charts) :
            \A f \in 1..Len(charts[i].files) :
                AgreesWithTable(charts[i].files[f], result[1].rows)

---------------------------------------------------------------------------
(* C23: emitters neither re-fill nor re-sort *)

\* the bars a chart of day-of-week rows has when it draws the rows as
\* they are
BarsOfRows(rows) ==
    [i \in 1..Len(rows) |-> <<days[rows[i].day_of_week + 1], rows[i].count>>]

\* the rows of one week, in the order of the summary
RowsOfWeek(summary, week_end) ==
    LET InWeek(row) == row.week_end = week_end
    IN  SelectSeq(summary, InWeek)

\* the file holds the rows of the summary, in their order, and no other
HoldsExactly(file, summary, c) ==
    CASE file.kind \in {"csv", "xlsx"} ->
            file.rows = [i \in 1..Len(summary) |->
                            written_row(summary[i], c.mode, c.unique)]
      [] c.op \in {"create_daily_chart", "create_average_chart"} ->
            /\ {h \in Hours : h \in DOMAIN file.bars}
                   = {summary[i].hour : i \in 1..Len(summary)}
            /\ \A i \in 1..Len(summary) : file.bars[summary[i].hour] = summary[i].count
      [] c.op = "create_day_of_week_chart" -> file.bars = BarsOfRows(summary)
      [] c.op = "create_weekly_charts" ->
            file.bars = BarsOfRows(RowsOfWeek(summary, file.week_end))
      [] c.op = "create_combined_weekly_chart" ->
            \A k \in 1..Len(file.panels) :
                file.panels[k] = BarsOfRows(RowsOfWeek(summary, WeeksOf(summary)[k]))

\* C23: every file an emitter writes holds exactly the rows the aggregation
\* returned, in the returned order: a chart of today has no entry for an hour
\* after the current one.
C23_EmittersOutputReturnedRows ==
    EmitReturned =>
        \A f \in 1..Len(result) :
            HoldsExactly(result[f], EmitterSummary(call, store), call)

---------------------------------------------------------------------------
(* C24: the store is only read *)

\* C24: no step of a request changes the table: it holds after the step the
\* rows it held before.  (The steps of a request are those that move pc;
\* VRCX, the owner of the table, appends rows on its own.)
C24_RequestsKeepTheStore == [][pc' # pc => store' = store]_vars

\* a request has run through to its end on a table that holds rows
C24_Witness ==
    /\ pc = "returned"
    /\ call.op = "main"
    /\ outcome = "completed"
    /\ store # EmptyBag

---------------------------------------------------------------------------
(* C25: the --weekly mode *)

\* a request of main has come to its end
RunReturned == pc = "returned" /\ call.op = "main"

\* the request is --weekly without a filter
PlainWeekly ==
    /\ call.args.weekly
    /\ ~call.args.list_instances
    /\ call.args.world_id = NoId
    /\ call.args.instance_id = NoId

\* C25: a --weekly request without a filter prints the weekly breakdown,
\* calls the creators of the weekly charts and of the combined chart, and does
\* not end in the error handler.
C25_WeeklyReportsAndCharts ==
    (RunReturned /\ PlainWeekly) =>
        /\ outcome = "completed"
        /\ Len(result) = 1
        /\ \E i \in 1..Len(charts) : charts[i].call.op = "create_weekly_charts"
        /\ \E i \in 1..Len(charts) :
               charts[i].call.op = "create_combined_weekly_chart"

---------------------------------------------------------------------------
(* C26: the --day-of-week mode *)

\* the request is --day-of-week without a filter
PlainDayOfWeek ==
    /\ call.args.day_of_week
    /\ ~call.args.weekly
    /\ ~call.args.list_instances
    /\ call.args.world_id = NoId
    /\ call.args.instance_id = NoId

\* the range of a request in a mode that takes one, after its defaults
RangeStart ==
    IF call.args.start_date = NoDate THEN DATE(call.now[1]) ELSE call.args.start_date
RangeEnd ==
    IF call.args.end_date = NoDate THEN RangeStart ELSE call.args.end_date

\* C26: a --day-of-week request prints the averages by day of week over the
\* range, one line for each weekday present; with --unique they are the
\* averages of get_unique_visitors_day_of_week.
C26_DayOfWeekPrintsAverages ==
    (MainReturned /\ PlainDayOfWeek) =>
        /\ Len(result) = 1
        /\ result[1].rows =
               IF call.args.unique
               THEN get_unique_visitors_day_of_week(store, RangeStart, RangeEnd, call.now)
               ELSE get_day_of_week_average(store, RangeStart, RangeEnd, call.now)

---------------------------------------------------------------------------
(* C27: the per-day loop of a date range *)

\* the request gives a range and no single date, and no mode flag
PlainRange ==
    /\ is_date_range(call.args)
    /\ call.args.date = NoDate
    /\ ~call.args.weekly /\ ~call.args.day_of_week /\ ~call.args.average
    /\ ~call.args.list_instances

\* the dates of the range, counted: none when the start is after the end
DaysInRange ==
    IF call.args.start_date <= call.args.end_date
    THEN call.args.end_date - call.args.start_date + 1
    ELSE 0

\* the calls of the daily chart creators among the emitter calls, in order
DailyChartCalls ==
    LET IsDaily(e) == e.call.op \in {"create_daily_chart",
                                     "create_daily_chart_for_instance"}
    IN  SelectSeq(charts, IsDaily)

\* C27: over a date range the per-day loop makes one hourly report (with a
\* world or instance filter) and one daily chart for each date from start to
\* end, in ascending order, and none when the start is after the end.
C27_OnePerDateOfRange ==
    /\ (pc = "reported" /\ call.op = "main" /\ PlainRange
            /\ (call.args.world_id # NoId \/ call.args.instance_id # NoId)) =>
           /\ Len(result) = DaysInRange
           /\ \A i \in 1..Len(result) :
                  result[i].date = call.args.start_date + i - 1
    /\ (pc \in {"charted", "failed"} /\ call.op = "main" /\ PlainRange) =>
           /\ Len(DailyChartCalls) = DaysInRange
           /\ \A i \in 1..Len(DailyChartCalls) :
                  /\ DailyChartCalls[i].call.date = call.args.start_date + i - 1
                  /\ Len(DailyChartCalls[i].files) = 1

\* a world-filtered request over the eight days 2024-12-30..2025-01-06 has
\* printed eight reports and drawn eight charts, the last ones of 2025-01-06
C27_Witness ==
    /\ pc = "charted"
    /\ call.op = "main"
    /\ PlainRange
    /\ call.args.world_id # NoId
    /\ call.args.start_date = 1
    /\ call.args.end_date = 8
    /\ Len(result) = 8
    /\ result[8].date = 8
    /\ Len(DailyChartCalls) = 8
    /\ DailyChartCalls[8].call.date = 8

---------------------------------------------------------------------------
(* C28: the chart phase follows the report phase *)

\* the filter of the report phase: the instance branch comes before the
\* world branch, and both come before the mode flags
ReportInstance ==
    IF call.args.instance_id # NoId
    THEN Materialize(call.args.world_id, call.args.instance_id)
    ELSE NoId
ReportWorld ==
    IF call.args.instance_id # NoId THEN NoId ELSE call.args.world_id

\* the mode of the report phase: a filtered report is hourly; "any" stands
\* for the plain report of a date or of a range, whose charts are hourly
ReportMode ==
    IF call.args.instance_id # NoId \/ call.args.world_id # NoId THEN "hourly"
    ELSE IF call.args.weekly THEN "weekly"
    ELSE IF call.args.day_of_week THEN "day_of_week"
    ELSE IF call.args.average THEN "average"
    ELSE "any"

\* C28: every chart and export of a request has the filter and the mode of
\* the report the request printed.
C28_ChartsFollowReport ==
    RunCharted =>
        \A i \in 1..Len(charts) :
            /\ charts[i].call.instance = ReportInstance
            /\ charts[i].call.world = ReportWorld
            /\ ReportMode # "any" => charts[i].call.mode = ReportMode

---------------------------------------------------------------------------
(* C29: the clock readings of an hour-of-day query *)

\* an hour-of-day query has returned the hours of a date it judged to be today
HourlyOfToday ==
    /\ pc = "returned"
    /\ call.op \in HourlyOps
    /\ CallDate = DATE(call.now[2])

\* C29: an hour-of-day query that judges its date to be today cuts the hours
\* off at the hour of the clock reading that judged it, whatever the clock
\* does between the readings.
C29_OneClockReading ==
    HourlyOfToday => result[Len(result)].hour = HOUR(call.now[2])

---------------------------------------------------------------------------
(* C30: the connection is closed on every path *)

\* C30: when main has returned, on whatever path, the connection is closed;
\* and once the connection is closed the request is past its last query (it
\* is at the return of a list mode or at its end).
C30_ConnectionEndsClosed ==
    /\ RunReturned => connection = "closed"
    /\ connection = "closed" => pc \in {"listed", "returned"}

\* a request that raised in its report or chart phase has returned with the
\* connection closed
C30_Witness ==
    /\ RunReturned
    /\ outcome = "error"
    /\ connection = "closed"
===========================================================================
